---- MODULE Spec2Model ----
(***************************************************************************)
(* Model of the injection engine of libnvidia-container (src/nvc_mount.c): *)
(* nvc_driver_mount and nvc_device_mount, the mount helpers they call, the *)
(* rollback on failure and the switch of mount namespace around them.      *)
(*                                                                         *)
(* Paths are sequences of components.  Container paths are kept relative   *)
(* to cnt->cfg.rootfs; a location that is not under the rootfs is the      *)
(* path Outside.                                                           *)
(***************************************************************************)
EXTENDS Integers, Sequences, FiniteSets, TLC

VARIABLES
    ns,      \* mount namespace the process is in: "caller" or "container"
    pc,      \* position of the running call
    op,      \* the running (or last) call: "none", "driver", "device"
    rv,      \* local rv of the call; the value returned once pc = "done"
    err,     \* ctx->err: "" or the kind of the error that was set
    flags,   \* cnt->flags
    info,    \* the nvc_driver_info of the running nvc_driver_mount
    dev,     \* the nvc_device of the running nvc_device_mount
    mnt,     \* nvc_driver_mount: the array mnt[0..ptr-mnt) of recorded mounts
    nmnt,    \* nvc_driver_mount: capacity of mnt (0 when array_new failed)
    idx,     \* loop index i of the loop the call is in
    devmnt,  \* nvc_device_mount: dev_mnt (Null or a path)
    procmnt, \* nvc_device_mount: proc_mnt (Null or a path)
    fs,      \* files of the container: <<layer, path>> -> node
    mounts,  \* mount table of the container's mount namespace, oldest first
    allow,   \* lines of {dev_cg}/devices.allow, oldest first
    host,    \* host side facts the call reads (the NV_PROC_DRIVER files)
    calls,   \* number of calls started so far (also tags what a call creates)
    budget   \* number of calls the caller makes on this container

vars == <<ns, pc, op, rv, err, flags, info, dev, mnt, nmnt, idx, devmnt, procmnt,
          fs, mounts, allow, host, calls, budget>>

\* ----------------------------------------------------------------- bounds
MaxCalls == 3

\* -------------------------------------------------------------- constants
NV_DEVICE_MAJOR == 195
NV_PROC_DRIVER == <<"proc", "driver", "nvidia">>
NV_APP_PROFILE_DIR == <<"usr", "share", "nvidia", "nvidia-application-profiles-rc.d">>
NV_PERSISTENCED_SOCKET == <<"var", "run", "nvidia-persistenced", "socket">>

OPT_NO_CGROUPS == "NO_CGROUPS"
OPT_NO_DEVBIND == "NO_DEVBIND"
OPT_UTILITY_LIBS == "UTILITY_LIBS"
OPT_COMPUTE_LIBS == "COMPUTE_LIBS"
OPT_VIDEO_LIBS == "VIDEO_LIBS"
OPT_GRAPHICS_LIBS == "GRAPHICS_LIBS"
OPT_UTILITY_BINS == "UTILITY_BINS"
OPT_COMPUTE_BINS == "COMPUTE_BINS"
OPT_COMPAT32 == "COMPAT32"

MS_BIND == "MS_BIND"
MS_REMOUNT == "MS_REMOUNT"
MS_RDONLY == "MS_RDONLY"
MS_NODEV == "MS_NODEV"
MS_NOSUID == "MS_NOSUID"
MS_NOEXEC == "MS_NOEXEC"

Null == <<"(null)">>
Outside == <<"..">>

\* cnt->cfg
bins_dir == <<"usr", "bin">>
libs_dir == <<"usr", "lib64">>
libs32_dir == <<"usr", "lib32">>

\* ------------------------------------------------------------ path helpers
IsPrefix(p, q) == Len(p) <= Len(q) /\ SubSeq(q, 1, Len(p)) = p
basename(p) == p[Len(p)]
dirname(p) == SubSeq(p, 1, Len(p) - 1)
Inside(p) == p /= Outside
Ancestors(p) == {SubSeq(p, 1, n) : n \in 1..(Len(p) - 1)}

\* path_append / path_join: the component is appended to the buffer as text;
\* nothing is resolved again (mount_files truncates the buffer back at `end`).
path_append(p, file) == Append(p, file)
path_join(p, file) == Append(p, file)

\* ------------------------------------------------------------ mount table
\* The newest of the mounts with the indexes S (the table is oldest first), 0 if none.
Newest(S) == IF S = {} THEN 0 ELSE CHOOSE i \in S : \A j \in S : j <= i

\* Index of the mount that covers path p (the newest mount at a prefix of p), 0 if none.
Cover(mt, p) == Newest({i \in 1..Len(mt) : IsPrefix(mt[i].at, p)})

\* Index of the newest mount whose mountpoint is exactly p, 0 if none.
TopAt(mt, p) == Newest({i \in 1..Len(mt) : mt[i].at = p})

IsMountpoint(mt, p) ==
    LET Is(c) == c /= 0 /\ mt[c].at = p
    IN Is(Cover(mt, p))

\* Layer that holds the entry of p: 0 the rootfs, n > 0 the tmpfs with id n,
\* -1 a bind mount (host content, nothing can be created there).
LayerUnder(mt, p) ==
    LET Layer(c) == IF c = 0 THEN 0 ELSE IF mt[c].type = "tmpfs" THEN mt[c].id ELSE -1
    IN Layer(Newest({i \in 1..Len(mt) : IsPrefix(mt[i].at, p) /\ mt[i].at /= p}))

FreshId(mt) ==
    CHOOSE n \in 1..(Len(mt) + 1) : \A i \in 1..Len(mt) : mt[i].id /= n

RemoveAt(s, i) == SubSeq(s, 1, i - 1) \o SubSeq(s, i + 1, Len(s))

RECURSIVE SelectMounts(_, _)
SelectMounts(mt, keep) ==
    IF mt = <<>> THEN <<>>
    ELSE IF keep[1] THEN <<Head(mt)>> \o SelectMounts(Tail(mt), Tail(keep))
         ELSE SelectMounts(Tail(mt), Tail(keep))

\* ------------------------------------------------------- files (kernel view)
\* A node is [kind, data, by]: kind "dir", "file" or "symlink"; data the content
\* of a file or the target of a symlink (<<"out">>: a target that leaves the
\* rootfs, <<"abs", ...>>: absolute inside the rootfs, <<"rel", ...>>: relative
\* to the link's directory); by the number of the call that created it (0: it
\* was there before).
ProcRoot == <<"proc">>

\* Content: nothing, text (a sequence of tokens), the target of a symbolic link,
\* or the application profile the engine emits, with the set m of the bits that
\* are set in its 64-bit mask 0x<HEX>.
NoData == [t |-> "none", s |-> <<>>, m |-> {}]
Text(tokens) == [t |-> "text", s |-> tokens, m |-> {}]
Link(target) == [t |-> "link", s |-> target, m |-> {}]
Profile(bits) == [t |-> "profile", s |-> <<>>, m |-> bits]

NoNode == [kind |-> "none", data |-> NoData, by |-> 0]
Node(k, d, b) == [kind |-> k, data |-> d, by |-> b]

\* What the kernel shows at the literal path p (the final component is not followed).
Lookup(f, mt, p) ==
    LET Entry(c, key) ==
            IF c /= 0 /\ mt[c].at = p THEN Node(mt[c].kind, NoData, mt[c].by)
            ELSE IF key \in DOMAIN f THEN f[key]
            ELSE NoNode
    IN Entry(Cover(mt, p), <<LayerUnder(mt, p), p>>)

\* Whether an entry can be created or removed at p: not inside a bind mount, not
\* in the kernel's procfs, not in a filesystem mounted read-only.
Writable(mt, p) ==
    LET In(l) == IF l = 0 THEN ~IsPrefix(ProcRoot, p)
                 ELSE IF l < 0 THEN FALSE
                 ELSE \A i \in 1..Len(mt) : mt[i].id = l => MS_RDONLY \notin mt[i].flags
    IN In(LayerUnder(mt, p))

HasChildren(f, mt, p) ==
    \E k \in DOMAIN f : k[1] = LayerUnder(mt, Append(p, "x")) /\ IsPrefix(p, k[2]) /\ k[2] /= p

Put(f, key, node) ==
    [k \in DOMAIN f \cup {key} |-> IF k = key THEN node ELSE f[k]]

Drop(f, keys) == [k \in DOMAIN f \ keys |-> f[k]]

\* Symbolic link resolution, as the kernel's path walk does it (every component,
\* the last one included); Outside when the walk leaves the rootfs.
MaxSymlinks == 2

RECURSIVE Walk(_, _, _, _, _)
Walk(f, mt, cur, rest, fuel) ==
    IF rest = <<>> THEN cur
    ELSE LET Component(nxt, n) ==
                 IF n.kind = "symlink"
                 THEN IF fuel = 0 \/ n.data.s[1] = "out" THEN Outside
                      ELSE IF n.data.s[1] = "abs"
                           THEN Walk(f, mt, <<>>, Tail(n.data.s) \o Tail(rest), fuel - 1)
                           ELSE Walk(f, mt, cur, Tail(n.data.s) \o Tail(rest), fuel - 1)
                 ELSE Walk(f, mt, nxt, Tail(rest), fuel)
         IN Component(Append(cur, Head(rest)), Lookup(f, mt, Append(cur, Head(rest))))

\* path_resolve(err, buf, rootfs, path): the canonical path of `path` inside the
\* rootfs, symbolic links followed; Outside stands for failure (the result would
\* not have the rootfs as prefix).
path_resolve(f, mt, p) == Walk(f, mt, <<>>, p, MaxSymlinks)

\* State threaded through the helpers: the files and the mount table.
St(f, mt) == [fs |-> f, mounts |-> mt]

\* mount(2).  With MS_REMOUNT the flags of the newest mount at the target are
\* replaced; otherwise a new mount is stacked on the target, which must exist.
\* The target is followed if it is a symbolic link.
xmount(s, src, target, type, flgs, kind, by) ==
    LET Remount(i) ==
            IF i = 0 THEN [ok |-> FALSE, st |-> s]
            ELSE [ok |-> TRUE, st |-> St(s.fs, [s.mounts EXCEPT ![i].flags = flgs])]
        Stack(t) ==
            IF Inside(t) /\ Lookup(s.fs, s.mounts, t).kind = "none"
            THEN [ok |-> FALSE, st |-> s]
            ELSE [ok |-> TRUE,
                  st |-> St(s.fs, Append(s.mounts,
                            [at |-> t, type |-> type, src |-> src, flags |-> flgs,
                             kind |-> kind, by |-> by,
                             id |-> IF type = "tmpfs" THEN FreshId(s.mounts) ELSE 0]))]
        On(t) == IF MS_REMOUNT \in flgs THEN Remount(TopAt(s.mounts, t)) ELSE Stack(t)
    IN On(Walk(s.fs, s.mounts, <<>>, target, MaxSymlinks))

\* umount2(path, MNT_DETACH): detaches the newest mount at path together with the
\* mounts made below it; the content of a detached tmpfs is gone.
umount2(s, p) ==
    LET Detach(i) ==
            LET gone == {j \in 1..Len(s.mounts) :
                            j = i \/ (j > i /\ IsPrefix(s.mounts[i].at, s.mounts[j].at))}
                ids == {s.mounts[j].id : j \in gone} \ {0}
            IN IF i = 0 THEN [ok |-> FALSE, st |-> s]
               ELSE [ok |-> TRUE,
                     st |-> St(Drop(s.fs, {k \in DOMAIN s.fs : k[1] \in ids}),
                               SelectMounts(s.mounts,
                                            [j \in 1..Len(s.mounts) |-> j \notin gone]))]
    IN Detach(TopAt(s.mounts, Walk(s.fs, s.mounts, <<>>, p, MaxSymlinks)))

\* file_remove(err, path): unlink or rmdir of the entry at path.
file_remove(s, p) ==
    LET Remove(n) ==
            IF \/ n.kind = "none"
               \/ IsMountpoint(s.mounts, p)
               \/ ~Writable(s.mounts, p)
               \/ (n.kind = "dir" /\ HasChildren(s.fs, s.mounts, p))
            THEN [ok |-> FALSE, st |-> s]
            ELSE [ok |-> TRUE,
                  st |-> St(Drop(s.fs, {<<LayerUnder(s.mounts, p), p>>}), s.mounts)]
    IN Remove(Lookup(s.fs, s.mounts, p))

\* file_create(err, path, data, uid, gid, mode): missing ancestors are made as
\* directories; then a directory (an existing directory is kept), a symbolic
\* link to `data` (an existing link with the same target is kept), or a regular
\* file: empty as a mount target when data is NoData (an existing regular file is
\* kept), else written with `data`.  An occupant of another kind is an error.
RECURSIVE MakeAncestors(_, _, _, _)
MakeAncestors(s, p, n, by) ==
    IF n >= Len(p) THEN [ok |-> TRUE, st |-> s]
    ELSE LET Make(q, k) ==
                 IF k = "dir" THEN MakeAncestors(s, p, n + 1, by)
                 ELSE IF k /= "none" \/ ~Writable(s.mounts, q) THEN [ok |-> FALSE, st |-> s]
                 ELSE MakeAncestors(
                          St(Put(s.fs, <<LayerUnder(s.mounts, q), q>>, Node("dir", NoData, by)),
                             s.mounts), p, n + 1, by)
         IN Make(SubSeq(p, 1, n), Lookup(s.fs, s.mounts, SubSeq(p, 1, n)).kind)

file_create(s, p, data, kind, by) ==
    LET bad == [ok |-> FALSE, st |-> s]
        Entry(a, n) ==
            LET new == [ok |-> TRUE,
                        st |-> St(Put(a.fs, <<LayerUnder(a.mounts, p), p>>,
                                      Node(kind, data, by)),
                                  a.mounts)]
                keep == [ok |-> TRUE, st |-> a]
            IN IF n.kind = "none" THEN (IF Writable(a.mounts, p) THEN new ELSE bad)
               ELSE IF n.kind /= kind THEN bad
               ELSE IF kind = "dir" THEN keep
               ELSE IF kind = "symlink" THEN (IF n.data = data THEN keep ELSE bad)
               ELSE IF data = NoData THEN keep
               ELSE IF IsMountpoint(a.mounts, p) \/ ~Writable(a.mounts, p) THEN bad
               ELSE new
        In(a) == IF ~a.ok THEN bad ELSE Entry(a.st, Lookup(a.st.fs, a.st.mounts, p))
    IN In(MakeAncestors(s, p, 1, by))

\* unmount(path): umount2(path, MNT_DETACH) then file_remove(NULL, path); both
\* results are ignored.
unmount(s, p) ==
    IF p = Null \/ p = <<>> THEN s
    ELSE file_remove(umount2(s, p).st, p).st

\* ------------------------------------------------------------------- host
\* Host paths the inputs are drawn from.
BinSmi == <<"usr", "bin", "nvidia-smi">>
LibMl == <<"usr", "lib64", "libnvidia-ml.so.1">>
LibCuda == <<"usr", "lib64", "libcuda.so.1">>
LibGlx == <<"usr", "lib64", "libGLX_nvidia.so.0">>
Lib32Cuda == <<"usr", "lib32", "libcuda.so.1">>
IpcMps == <<"tmp", "nvidia-mps">>
DevCtl == <<"dev", "nvidiactl">>
DevUvm == <<"dev", "nvidia-uvm">>
DevGpu0 == <<"dev", "nvidia0">>
DevGpu1 == <<"dev", "nvidia1">>
\* A library listed among the binaries and a binary listed among the libraries.
LibInBins == <<"opt", "libcuda.so.1">>
BinInLibs == <<"opt", "nvidia-smi">>

DevId(maj, min) == [major |-> maj, minor |-> min]
major(id) == id.major
minor(id) == id.minor

\* st_rdev of the host's device nodes.
HostRdev(p) ==
    IF p = DevCtl THEN DevId(195, 255)
    ELSE IF p = DevUvm THEN DevId(243, 0)
    ELSE IF p = DevGpu0 THEN DevId(195, 0)
    ELSE DevId(195, 1)

GpuProc(busid16) == NV_PROC_DRIVER \o <<"gpus", busid16>>

\* file_mode(err, path, &mode) of a host path, reduced to the file type.
HostKind(p) ==
    IF p \in {DevCtl, DevUvm, DevGpu0, DevGpu1} THEN "chr"
    ELSE IF p = NV_PERSISTENCED_SOCKET THEN "sock"
    ELSE IF p = IpcMps \/ IsPrefix(NV_PROC_DRIVER \o <<"gpus">>, p) THEN "dir"
    ELSE "file"

\* Type of the entry file_create makes for a mount target of that mode.
TargetKind(src) == IF HostKind(src) = "dir" THEN "dir" ELSE "file"

\* match_binary_flags / match_library_flags: the capability a basename belongs to.
BinFlag(file) ==
    IF file = "nvidia-smi" THEN OPT_UTILITY_BINS
    ELSE IF file = "nvidia-cuda-mps-control" THEN OPT_COMPUTE_BINS
    ELSE "-"

LibFlag(file) ==
    IF file = "libnvidia-ml.so.1" THEN OPT_UTILITY_LIBS
    ELSE IF file = "libcuda.so.1" THEN OPT_COMPUTE_LIBS
    ELSE IF file = "libnvcuvid.so.1" THEN OPT_VIDEO_LIBS
    ELSE IF file = "libGLX_nvidia.so.0" THEN OPT_GRAPHICS_LIBS
    ELSE "-"

match_binary_flags(file, fl) == BinFlag(file) \in fl
match_library_flags(file, fl) == LibFlag(file) \in fl

\* strpcmp(s, prefix) == 0: prefix is a prefix of the name s.
strpcmp0(name, prefix) ==
    \/ name = prefix
    \/ prefix = "libcuda.so" /\ name = "libcuda.so.1"
    \/ prefix = "libGLX_nvidia.so" /\ name = "libGLX_nvidia.so.0"

\* strrcmp(NV_PERSISTENCED_SOCKET, ipc) == 0: the path is the persistenced socket.
strrcmp0(sock, ipc) == ipc = sock

\* ---------------------------------------------------------------- helpers
\* A helper takes the failure f = [i, step] that is injected into it (step "ok":
\* none; i: the loop iteration it strikes, 0 outside loops) and returns
\* [ok, st, out, err]: st the files and mounts it leaves, out what it returns.
\* The steps of a helper follow the code's order: the result of a call is bound
\* as the parameter of the local operator that holds what the code does next.
F(i, step) == [i |-> i, step |-> step]
Ret(ok, st, out, e) == [ok |-> ok, st |-> st, out |-> out, err |-> e]
Hit(f, i, step) == f.i = i /\ f.step = step

\* Variants of the remount masks: the library mask without MS_RDONLY, the device
\* mask without MS_NOEXEC.
WritableFileMask == {MS_BIND, MS_REMOUNT, MS_NODEV, MS_NOSUID}
ExecDeviceMask == {MS_BIND, MS_REMOUNT, MS_RDONLY, MS_NOSUID}

RDONLY_NODEV_NOSUID == {MS_BIND, MS_REMOUNT, MS_RDONLY, MS_NODEV, MS_NOSUID}
RDONLY_NOSUID_NOEXEC == {MS_BIND, MS_REMOUNT, MS_RDONLY, MS_NOSUID, MS_NOEXEC}
NODEV_NOSUID_NOEXEC == {MS_BIND, MS_REMOUNT, MS_NODEV, MS_NOSUID, MS_NOEXEC}
RDONLY_NODEV_NOSUID_NOEXEC == {MS_BIND, MS_REMOUNT, MS_RDONLY, MS_NODEV, MS_NOSUID, MS_NOEXEC}

\* Lines 99-109 of mount_device, 127-137 of mount_ipc, 283-294 of mount_procfs_gpu:
\* bind, remount with the flags of the class, xstrdup; on failure unmount(path).
BindRemount(f, s, src, path, flgs, by) ==
    LET Record(r) ==
            IF Hit(f, 0, "xstrdup") THEN Ret(FALSE, unmount(r.st, path), Null, "xstrdup")
            ELSE Ret(TRUE, r.st, path, "")
        Remount(b, r) ==
            IF Hit(f, 0, "remount") \/ ~r.ok
            THEN Ret(FALSE, unmount(b.st, path), Null, "xmount")
            ELSE Record(r)
        Bind(b) ==
            IF Hit(f, 0, "mount") \/ ~b.ok THEN Ret(FALSE, unmount(s, path), Null, "xmount")
            ELSE Remount(b, xmount(b.st, Null, path, "bind", flgs, HostKind(src), by))
    IN Bind(xmount(s, src, path, "bind", {MS_BIND}, HostKind(src), by))

\* path_resolve, file_mode, file_create of the placeholder: a failure returns
\* NULL at once, without unmount.
Placeholder(f, s, src, by) ==
    LET Create(path, c) ==
            IF Hit(f, 0, "file_create") \/ ~c.ok THEN Ret(FALSE, s, Null, "file_create")
            ELSE Ret(TRUE, c.st, path, "")
        Resolve(path) ==
            IF Hit(f, 0, "path_resolve") \/ ~Inside(path)
            THEN Ret(FALSE, s, Null, "path_resolve")
            ELSE IF Hit(f, 0, "file_mode") THEN Ret(FALSE, s, Null, "file_mode")
            ELSE Create(path, file_create(s, path, NoData, TargetKind(src), by))
    IN Resolve(path_resolve(s.fs, s.mounts, src))

mount_device(f, s, dv, by) ==
    LET Mount(p) == IF ~p.ok THEN p
                    ELSE BindRemount(f, p.st, dv, p.out, RDONLY_NOSUID_NOEXEC, by)
    IN Mount(Placeholder(f, s, dv, by))

mount_ipc(f, s, ipc, by) ==
    LET Mount(p) == IF ~p.ok THEN p
                    ELSE BindRemount(f, p.st, ipc, p.out, NODEV_NOSUID_NOEXEC, by)
    IN Mount(Placeholder(f, s, ipc, by))

\* mount_procfs_gpu(err, cnt, busid): gpu is the host directory of the GPU
\* (NV_PROC_DRIVER/gpus/<busid + 4>).  Every failure after path_resolve goes
\* through unmount(path); before it path is still empty.
mount_procfs_gpu(f, s, gpu, by) ==
    LET Create(path, c) ==
            IF Hit(f, 0, "file_create") \/ ~c.ok
            THEN Ret(FALSE, unmount(s, path), Null, "file_create")
            ELSE BindRemount(f, c.st, gpu, path, RDONLY_NODEV_NOSUID_NOEXEC, by)
        Resolve(path) ==
            IF Hit(f, 0, "xasprintf") THEN Ret(FALSE, s, Null, "xasprintf")
            ELSE IF Hit(f, 0, "file_mode") THEN Ret(FALSE, s, Null, "file_mode")
            ELSE IF Hit(f, 0, "path_resolve") \/ ~Inside(path)
                 THEN Ret(FALSE, s, Null, "path_resolve")
            ELSE Create(path, file_create(s, path, NoData, TargetKind(gpu), by))
    IN Resolve(path_resolve(s.fs, s.mounts, gpu))

\* Lines 151-163 of mount_app_profile, 226-227 and 251-261 of mount_procfs: mount
\* a tmpfs, remount it with the flags of the class, xstrdup.
TmpfsRemount(f, s, path, by) ==
    LET Record(r) ==
            IF Hit(f, 0, "remount") \/ ~r.ok THEN Ret(FALSE, unmount(s, path), Null, "xmount")
            ELSE IF Hit(f, 0, "xstrdup") THEN Ret(FALSE, unmount(r.st, path), Null, "xstrdup")
            ELSE Ret(TRUE, r.st, path, "")
    IN Record(xmount(s, Null, path, "tmpfs", NODEV_NOSUID_NOEXEC, "dir", by))

mount_app_profile(f, s, by) ==
    LET Mount(path, c, m) ==
            IF Hit(f, 0, "mount") \/ ~m.ok THEN Ret(FALSE, unmount(c.st, path), Null, "xmount")
            ELSE TmpfsRemount(f, m.st, path, by)
        Create(path, c) ==
            IF Hit(f, 0, "file_create") \/ ~c.ok
            THEN Ret(FALSE, unmount(s, path), Null, "file_create")
            ELSE Mount(path, c, xmount(c.st, <<"tmpfs">>, path, "tmpfs", {}, "dir", by))
        Resolve(path) ==
            IF Hit(f, 0, "path_resolve") \/ ~Inside(path)
            THEN Ret(FALSE, s, Null, "path_resolve")
            ELSE Create(path, file_create(s, path, NoData, "dir", by))
    IN Resolve(path_resolve(s.fs, s.mounts, NV_APP_PROFILE_DIR))

\* The host's NV_PROC_DRIVER files, in the order of files[].
ProcFiles == <<"params", "version", "registry">>

\* A variant of the patch that rewrites every "ModifyDeviceFiles: 1".
PatchEvery(tokens) ==
    [i \in 1..Len(tokens) |->
        IF tokens[i] = "ModifyDeviceFiles: 1" THEN "ModifyDeviceFiles: 0" ELSE tokens[i]]

\* Line 240-241: the `1` of the first "ModifyDeviceFiles: 1" becomes `0`.
RECURSIVE PatchParams(_)
PatchParams(tokens) ==
    IF tokens = <<>> THEN <<>>
    ELSE IF Head(tokens) = "ModifyDeviceFiles: 1"
         THEN <<"ModifyDeviceFiles: 0">> \o Tail(tokens)
         ELSE <<Head(tokens)>> \o PatchParams(Tail(tokens))

\* The loop of mount_procfs (lines 231-249) from iteration i on.
RECURSIVE ProcfsCopy(_, _, _, _, _, _)
ProcfsCopy(f, s, h, path, i, by) ==
    IF i > Len(ProcFiles) THEN Ret(TRUE, s, path, "")
    ELSE LET buf == h[ProcFiles[i]]
             out == IF i = 1 THEN Text(PatchParams(buf.s)) ELSE buf
             Create(c) ==
                 IF Hit(f, i, "file_create") \/ ~c.ok THEN Ret(FALSE, s, Null, "file_create")
                 ELSE ProcfsCopy(f, c.st, h, path, i + 1, by)
         IN IF buf = NoData THEN ProcfsCopy(f, s, h, path, i + 1, by)
            ELSE IF Hit(f, i, "file_mode") THEN Ret(FALSE, s, Null, "file_mode")
            ELSE IF Hit(f, i, "file_read") THEN Ret(FALSE, s, Null, "file_read_text")
            ELSE IF Hit(f, i, "path_append") THEN Ret(FALSE, s, Null, "path_append")
            ELSE Create(file_create(s, path_append(path, ProcFiles[i]), out, "file", by))

mount_procfs(f, s, h, by) ==
    LET Copy(path, c) ==
            IF ~c.ok THEN Ret(FALSE, unmount(c.st, path), Null, c.err)
            ELSE TmpfsRemount(f, c.st, path, by)
        Mount(path, m) ==
            IF Hit(f, 0, "mount") \/ ~m.ok THEN Ret(FALSE, s, Null, "xmount")
            ELSE Copy(path, ProcfsCopy(f, m.st, h, path, 1, by))
        Resolve(path) ==
            IF Hit(f, 0, "path_resolve") \/ ~Inside(path)
            THEN Ret(FALSE, s, Null, "path_resolve")
            ELSE Mount(path, xmount(s, <<"tmpfs">>, path, "tmpfs", {}, "dir", by))
    IN Resolve(path_resolve(s.fs, s.mounts, NV_PROC_DRIVER))

\* The loop of mount_files (lines 55-74) from iteration i on; mnt holds the
\* mountpoints recorded so far.  At fail (lines 77-81) the recorded mountpoints
\* are unmounted; the path of the iteration that failed is not among them.
RECURSIVE UnmountAll(_, _)
UnmountAll(s, paths) ==
    IF paths = <<>> THEN s ELSE UnmountAll(unmount(s, Head(paths)), Tail(paths))

\* A variant of the test of lines 63-64 that ignores what file_create found at
\* the path.
CreateUnchecked(f, i, c) == Hit(f, i, "file_create")

\* Line 63-64: if (file_create(...) < 0) goto fail, c being file_create's result.
CreateFailed(f, i, c) == Hit(f, i, "file_create") \/ ~c.ok

RECURSIVE MountFilesLoop(_, _, _, _, _, _, _, _)
MountFilesLoop(f, s, fl, dir, paths, i, mnt_, by) ==
    IF i > Len(paths) THEN Ret(TRUE, s, mnt_, "")
    ELSE LET file == basename(paths[i])
             path == path_append(dir, file)
             fail(st, e) == Ret(FALSE, UnmountAll(st, mnt_), <<>>, e)
             Remount(b, r) ==
                 IF Hit(f, i, "remount") \/ ~r.ok THEN fail(b.st, "xmount")
                 ELSE IF Hit(f, i, "xstrdup") THEN fail(r.st, "xstrdup")
                 ELSE MountFilesLoop(f, r.st, fl, dir, paths, i + 1, Append(mnt_, path), by)
             Bind(c, b) ==
                 IF Hit(f, i, "mount") \/ ~b.ok THEN fail(c.st, "xmount")
                 ELSE Remount(b, xmount(b.st, Null, path, "bind", RDONLY_NODEV_NOSUID,
                                        HostKind(paths[i]), by))
             Create(c) ==
                 IF CreateFailed(f, i, c) THEN fail(s, "file_create")
                 ELSE Bind(c, xmount(c.st, paths[i], path, "bind", {MS_BIND},
                                     HostKind(paths[i]), by))
         IN IF ~match_binary_flags(file, fl) /\ ~match_library_flags(file, fl)
            THEN MountFilesLoop(f, s, fl, dir, paths, i + 1, mnt_, by)
            ELSE IF Hit(f, i, "path_append") THEN fail(s, "path_append")
            ELSE IF Hit(f, i, "file_mode") THEN fail(s, "file_mode")
            ELSE Create(file_create(s, path, NoData, TargetKind(paths[i]), by))

\* mount_files(err, cnt, dir, paths, size): out is the array of the mountpoints.
mount_files(f, s, fl, dir, paths, by) ==
    LET Create(path, c) ==
            IF Hit(f, 0, "file_create") \/ ~c.ok THEN Ret(FALSE, s, <<>>, "file_create")
            ELSE IF Hit(f, 0, "array_new") THEN Ret(FALSE, c.st, <<>>, "array_new")
            ELSE MountFilesLoop(f, c.st, fl, path, paths, 1, <<>>, by)
        Resolve(path) ==
            IF Hit(f, 0, "path_resolve") \/ ~Inside(path)
            THEN Ret(FALSE, s, <<>>, "path_resolve")
            ELSE Create(path, file_create(s, path, NoData, "dir", by))
    IN Resolve(path_resolve(s.fs, s.mounts, dir))

\* ------------------------------------------------------ application profile
CONF == "10-container.conf"
AllBits == 0..63

\* Line 190-191: strstr(buf, "0x") finds the number, strtoumax reads it.  The
\* text after "0x" of a file the engine did not write is the tokens that follow
\* the token "0x"; no hex digit there reads as 0, UINTMAX_MAX is refused.
HasHex(d) == d.t = "profile" \/ (d.t = "text" /\ \E i \in 1..Len(d.s) : d.s[i] = "0x")
HexBits(d) == IF d.t = "profile" THEN d.m ELSE {}
ProfileInvalid(d) == ~HasHex(d) \/ HexBits(d) = AllBits

\* update_app_profile(err, cnt, id)
update_app_profile(f, s, id, by) ==
    LET devbit == {minor(id)}
        Create(path, c) ==
            IF Hit(f, 0, "file_create") \/ ~c.ok THEN Ret(FALSE, s, Null, "file_create")
            ELSE Ret(TRUE, c.st, path, "")
        Read(path, n) ==
            IF Hit(f, 0, "file_read") THEN Ret(FALSE, s, Null, "file_read_text")
            ELSE IF n.kind /= "none" /\ n.kind /= "file"
                 THEN Ret(FALSE, s, Null, "file_read_text")
            ELSE IF n.kind = "file" /\ ProfileInvalid(n.data)
                 THEN Ret(FALSE, s, Null, "invalid application profile")
            ELSE IF Hit(f, 0, "xasprintf") THEN Ret(FALSE, s, Null, "xasprintf")
            ELSE Create(path,
                        file_create(s, path,
                                    IF n.kind = "none" THEN Profile(devbit)
                                    ELSE Profile(HexBits(n.data) \cup devbit),
                                    "file", by))
        Resolve(path) ==
            IF Hit(f, 0, "path_resolve") \/ ~Inside(path)
            THEN Ret(FALSE, s, Null, "path_resolve")
            ELSE Read(path, Lookup(s.fs, s.mounts, path))
    IN Resolve(path_resolve(s.fs, s.mounts, path_append(NV_APP_PROFILE_DIR, CONF)))

\* A variant of setup_cgroup that opens devices.allow for writing from its start:
\* the lines it held are replaced.
setup_cgroup_truncating(f, lines, id) ==
    IF Hit(f, 0, "path_join") THEN [ok |-> FALSE, out |-> lines, err |-> "path_join"]
    ELSE IF Hit(f, 0, "xfopen") THEN [ok |-> FALSE, out |-> lines, err |-> "xfopen"]
    ELSE IF Hit(f, 0, "write") THEN [ok |-> FALSE, out |-> <<>>, err |-> "write error"]
    ELSE [ok |-> TRUE, out |-> <<id>>, err |-> ""]

\* ------------------------------------------------------------------ cgroup
\* setup_cgroup(err, cgroup, id): the line "c <major>:<minor> rw" is appended
\* to devices.allow.  out is the new content of the file.
setup_cgroup(f, lines, id) ==
    IF Hit(f, 0, "path_join") THEN [ok |-> FALSE, out |-> lines, err |-> "path_join"]
    ELSE IF Hit(f, 0, "xfopen") THEN [ok |-> FALSE, out |-> lines, err |-> "xfopen"]
    ELSE IF Hit(f, 0, "write") THEN [ok |-> FALSE, out |-> lines, err |-> "write error"]
    ELSE [ok |-> TRUE, out |-> Append(lines, id), err |-> ""]

\* ---------------------------------------------------------------- symlinks
\* symlink_library(err, src, target, linkname, uid, gid)
symlink_library(s, src, target, linkname, by) ==
    file_create(s, path_join(dirname(src), linkname), Link(<<"rel", target>>), "symlink", by)

\* symlink_libraries(err, cnt, paths, size), from iteration i on.
RECURSIVE symlink_libraries(_, _, _, _, _)
symlink_libraries(f, s, paths, i, by) ==
    IF i > Len(paths) THEN Ret(TRUE, s, Null, "")
    ELSE LET lib == basename(paths[i])
             linkname == IF strpcmp0(lib, "libcuda.so") THEN "libcuda.so"
                         ELSE IF strpcmp0(lib, "libGLX_nvidia.so") THEN "libGLX_indirect.so.0"
                         ELSE ""
             Create(c) ==
                 IF Hit(f, i, "file_create") \/ ~c.ok THEN Ret(FALSE, s, Null, "file_create")
                 ELSE symlink_libraries(f, c.st, paths, i + 1, by)
         IN IF linkname = "" THEN symlink_libraries(f, s, paths, i + 1, by)
            ELSE IF Hit(f, i, "xstrdup") THEN Ret(FALSE, s, Null, "xstrdup")
            ELSE Create(symlink_library(s, paths[i], lib, linkname, by))

\* ------------------------------------------------------------------ inputs
AllFlags == {OPT_NO_CGROUPS, OPT_NO_DEVBIND, OPT_UTILITY_LIBS, OPT_COMPUTE_LIBS,
             OPT_VIDEO_LIBS, OPT_GRAPHICS_LIBS, OPT_UTILITY_BINS, OPT_COMPUTE_BINS,
             OPT_COMPAT32}

Dev(p, id) == [path |-> p, id |-> id]
DriverInfo(b, l, l32, i, d) == [bins |-> b, libs |-> l, libs32 |-> l32, ipcs |-> i, devs |-> d]
NoInfo == DriverInfo(<<>>, <<>>, <<>>, <<>>, <<>>)

SomeIpcs == <<NV_PERSISTENCED_SOCKET, IpcMps>>
SomeDevs == <<Dev(DevCtl, HostRdev(DevCtl)), Dev(DevUvm, HostRdev(DevUvm))>>

\* The driver infos a call is given: one list filled, or all of them.
Infos ==
    {NoInfo,
     DriverInfo(<<BinSmi>>, <<>>, <<>>, <<>>, <<>>),
     DriverInfo(<<>>, <<LibMl, LibCuda>>, <<>>, <<>>, <<>>),
     DriverInfo(<<>>, <<LibCuda, LibGlx>>, <<>>, <<>>, <<>>),
     DriverInfo(<<>>, <<>>, <<Lib32Cuda>>, <<>>, <<>>),
     DriverInfo(<<>>, <<>>, <<>>, SomeIpcs, <<>>),
     DriverInfo(<<>>, <<>>, <<>>, <<>>, SomeDevs),
     DriverInfo(<<LibInBins>>, <<BinInLibs>>, <<>>, <<>>, <<>>),
     DriverInfo(<<BinSmi>>, <<LibCuda, LibGlx>>, <<Lib32Cuda>>, SomeIpcs, SomeDevs)}

\* busid is the PCI address in 32-bit domain form; busid + 4 is its 16-bit form.
Busid16(busid) == IF busid = "00000000:3b:00.0" THEN "0000:3b:00.0" ELSE "0000:af:00.0"
Device(p, id, busid) == [node |-> Dev(p, id), busid |-> busid]
NoDevice == Device(Null, DevId(0, 0), "")

Devices ==
    {Device(DevGpu0, DevId(195, 0), "00000000:3b:00.0"),
     Device(DevGpu1, DevId(195, 1), "00000000:af:00.0"),
     Device(DevGpu1, DevId(195, 3), "00000000:af:00.0")}

\* The container's files before the first call: the kernel's procfs, and
\* possibly entries an image put at the paths the engine will use.
ProcNodes ==
    {<<"proc">>, <<"proc", "driver">>, NV_PROC_DRIVER, NV_PROC_DRIVER \o <<"gpus">>,
     GpuProc("0000:3b:00.0"), GpuProc("0000:af:00.0")}

BaseFs == [k \in {<<0, p>> : p \in ProcNodes} |-> Node("dir", NoData, 0)]

LinkedFs ==
    [k \in DOMAIN BaseFs \cup {<<0, <<"usr">>>>, <<0, libs_dir>>, <<0, <<"dev">>>>,
                               <<0, path_append(libs_dir, "libcuda.so.1")>>, <<0, DevGpu1>>}
        |-> IF k[2] \in {path_append(libs_dir, "libcuda.so.1"), DevGpu1}
            THEN Node("symlink", Link(<<"out">>), 0)
            ELSE Node("dir", NoData, 0)]

\* An image that already holds 10-container.conf: a profile the engine wrote
\* (one bit, all bits but one, all bits), text with "0x" and no hex digit after
\* it, text without "0x".
Confs ==
    {Profile({0}), Profile(AllBits \ {1}), Profile(AllBits), Text(<<"0x", "]">>), Text(<<"{}">>)}

ConfPath == path_append(NV_APP_PROFILE_DIR, CONF)

ProfiledFs(d) ==
    [k \in DOMAIN BaseFs \cup {<<0, p>> : p \in Ancestors(ConfPath) \cup {ConfPath}}
        |-> IF k[2] = ConfPath THEN Node("file", d, 0) ELSE Node("dir", NoData, 0)]

\* The flag sets the calls are tried with: every combination of the flags that
\* gate an input of the model on an empty image, fewer on an image with links
\* and for sequences of calls.
WideFlags == AllFlags \ {OPT_VIDEO_LIBS, OPT_COMPUTE_BINS}
ImageFlags == {OPT_COMPUTE_LIBS, OPT_GRAPHICS_LIBS, OPT_NO_CGROUPS}
ProfiledFlags == {{OPT_GRAPHICS_LIBS}, {OPT_GRAPHICS_LIBS, OPT_NO_DEVBIND}}
ProfiledCalls == 2
DeepFlags == {OPT_GRAPHICS_LIBS, OPT_NO_DEVBIND, OPT_NO_CGROUPS}

\* The host's NV_PROC_DRIVER files: the usual ones; params that already says
\* ModifyDeviceFiles: 0; files that hold the setting more than once and outside
\* params.
StockHost ==
    [params |-> Text(<<"ModifyDeviceFiles: 1">>), version |-> Text(<<"NVRM">>),
     registry |-> NoData]

Hosts ==
    {StockHost,
     [params |-> Text(<<"ResmanDebugLevel: 1", "ModifyDeviceFiles: 0">>),
      version |-> Text(<<"NVRM">>), registry |-> Text(<<"Binary: ">>)],
     [params |-> Text(<<"ResmanDebugLevel: 1", "ModifyDeviceFiles: 1", "ModifyDeviceFiles: 1">>),
      version |-> Text(<<"NVRM", "ModifyDeviceFiles: 1">>),
      registry |-> Text(<<"ModifyDeviceFiles: 1">>)]}

\* The flags the calls are tried with on every host of Hosts.
HostFlags == {OPT_NO_CGROUPS}

Init ==
    /\ ns = "caller"
    /\ pc = "idle"
    /\ op = "none"
    /\ rv = 0
    /\ err = ""
    /\ \/ budget = 1 /\ fs = BaseFs /\ flags \in SUBSET WideFlags
       \/ budget = 1 /\ fs = LinkedFs /\ flags \in SUBSET ImageFlags
       \/ budget = MaxCalls /\ fs = BaseFs /\ flags \in SUBSET DeepFlags
       \/ budget = ProfiledCalls /\ fs \in {ProfiledFs(d) : d \in Confs} /\ flags \in ProfiledFlags
    /\ info = NoInfo
    /\ dev = NoDevice
    /\ mnt = <<>>
    /\ nmnt = 0
    /\ idx = 0
    /\ devmnt = Null
    /\ procmnt = Null
    /\ mounts = <<>>
    /\ allow = <<>>
    /\ host \in (IF budget = 1 /\ fs = BaseFs /\ flags \subseteq HostFlags
                  THEN Hosts ELSE {StockHost})
    /\ calls = 0

\* ----------------------------------------------------------- failure points
\* The calls of each helper that can fail, as the failures injected into it.
Ok == F(0, "ok")
At(is, steps) == {F(i, st) : i \in is, st \in steps}
BindFails ==
    {Ok} \cup At({0}, {"path_resolve", "file_mode", "file_create", "mount", "remount", "xstrdup"})
GpuFails == BindFails \cup {F(0, "xasprintf")}
TmpfsFails == {Ok} \cup At({0}, {"path_resolve", "file_create", "mount", "remount", "xstrdup"})
ProcfsFails ==
    TmpfsFails \cup At(1..Len(ProcFiles), {"file_mode", "file_read", "path_append", "file_create"})
FilesFails(paths) ==
    {Ok} \cup At({0}, {"path_resolve", "file_create", "array_new"})
         \cup At(1..Len(paths), {"path_append", "file_mode", "file_create", "mount", "remount",
                                 "xstrdup"})
SymlinkFails(paths) == {Ok} \cup At(1..Len(paths), {"xstrdup", "file_create"})
ProfileFails == {Ok} \cup At({0}, {"path_resolve", "file_read", "xasprintf", "file_create"})
CgroupFails == {Ok} \cup At({0}, {"path_join", "xfopen", "write"})

\* ------------------------------------------------------- nvc_driver_mount
Now == St(fs, mounts)

\* A variant of nsenter whose failure goes unnoticed: the call goes on in the
\* namespace it was in.
nsenter_unchecked(cur, e) == [ok |-> TRUE, ns |-> IF e = "nsenter" THEN cur ELSE "container"]

\* nsenter(err, cnt->mnt_ns, CLONE_NEWNS): on success the process is in the
\* container's mount namespace, on failure where it was.
nsenter(cur, e) ==
    IF e = "nsenter" THEN [ok |-> FALSE, ns |-> cur] ELSE [ok |-> TRUE, ns |-> "container"]

\* Where a failed step goes: to the unmount loop, or past it when it has nothing to do.
DriverFailPc(m) == IF m = <<>> THEN "d_exit" ELSE "d_fail"

\* Lines 380-391: validation, nsenter, array_new.
DriverEnter(i, e) ==
    /\ pc = "idle"
    /\ calls = 0
    /\ budget > 1 => i = NoInfo
    /\ calls < budget
    /\ calls' = calls + 1
    /\ op' = "driver"
    /\ info' = i
    /\ dev' = NoDevice
    /\ mnt' = <<>>
    /\ idx' = 1
    /\ devmnt' = Null
    /\ procmnt' = Null
    /\ rv' = -1
    /\ IF e = "validate"
       THEN /\ pc' = "done"
            /\ err' = e
            /\ nmnt' = 0
            /\ ns' = ns
       ELSE \E n \in {nsenter(ns, e)} :
            /\ ns' = n.ns
            /\ IF ~n.ok
               THEN /\ pc' = "done"
                    /\ err' = "nsenter"
                    /\ nmnt' = 0
               ELSE /\ nmnt' = IF e = "array_new" THEN 0
                               ELSE 2 + Len(i.bins) + Len(i.libs) + Len(i.libs32)
                                      + Len(i.ipcs) + Len(i.devs)
                    /\ err' = IF e = "array_new" THEN e ELSE ""
                    /\ pc' = IF e = "array_new" THEN "d_exit" ELSE "d_procfs"
    /\ UNCHANGED <<flags, fs, mounts, allow, host, budget>>

\* A step of nvc_driver_mount that calls a helper returning a mountpoint or an
\* array of mountpoints: r is the helper's result, next the position after it.
DriverStep(r, out, next) ==
    /\ fs' = r.st.fs
    /\ mounts' = r.st.mounts
    /\ IF r.ok
       THEN /\ mnt' = mnt \o out
            /\ pc' = next
            /\ err' = err
       ELSE /\ mnt' = mnt
            /\ pc' = DriverFailPc(mnt)
            /\ err' = r.err
    /\ idx' = 1
    /\ UNCHANGED <<ns, op, rv, flags, info, dev, nmnt, devmnt, procmnt, allow, host, calls, budget>>

DriverSkip(next) ==
    /\ pc' = next
    /\ idx' = 1
    /\ UNCHANGED <<ns, op, rv, err, flags, info, dev, mnt, nmnt, devmnt, procmnt,
                   fs, mounts, allow, host, calls, budget>>

\* Lines 393-395
DriverProcfs(f) ==
    /\ pc = "d_procfs"
    /\ \E r \in {mount_procfs(f, Now, host, calls)} : DriverStep(r, <<r.out>>, "d_app")

\* Lines 396-400
DriverAppProfile(f) ==
    /\ pc = "d_app"
    /\ IF OPT_GRAPHICS_LIBS \in flags
       THEN \E r \in {mount_app_profile(f, Now, calls)} : DriverStep(r, <<r.out>>, "d_bins")
       ELSE f = Ok /\ DriverSkip("d_bins")

\* Lines 402-407
DriverBins(f) ==
    /\ pc = "d_bins"
    /\ IF info.bins /= <<>>
       THEN \E r \in {mount_files(f, Now, flags, bins_dir, info.bins, calls)} :
                DriverStep(r, r.out, "d_libs")
       ELSE f = Ok /\ DriverSkip("d_libs")

\* Lines 408-413
DriverLibs(f) ==
    /\ pc = "d_libs"
    /\ IF info.libs /= <<>>
       THEN \E r \in {mount_files(f, Now, flags, libs_dir, info.libs, calls)} :
                DriverStep(r, r.out, "d_libs32")
       ELSE f = Ok /\ DriverSkip("d_libs32")

\* Lines 414-419
DriverLibs32(f) ==
    /\ pc = "d_libs32"
    /\ IF OPT_COMPAT32 \in flags /\ info.libs32 /= <<>>
       THEN \E r \in {mount_files(f, Now, flags, libs32_dir, info.libs32, calls)} :
                DriverStep(r, r.out, "d_symlinks")
       ELSE f = Ok /\ DriverSkip("d_symlinks")

\* Position after the loop over info.ipcs / info.devs once iteration i is done.
AfterIpc(i) ==
    IF i < Len(info.ipcs) THEN "d_ipcs"
    ELSE IF info.devs /= <<>> THEN "d_devs" ELSE "d_exit"
AfterDev(i) == IF i < Len(info.devs) THEN "d_devs" ELSE "d_exit"

\* Lines 420-421
DriverSymlinks(f) ==
    /\ pc = "d_symlinks"
    /\ \E r \in {symlink_libraries(f, Now, mnt, 1, calls)} :
          /\ fs' = r.st.fs
          /\ mounts' = r.st.mounts
          /\ pc' = IF r.ok THEN AfterIpc(0) ELSE DriverFailPc(mnt)
          /\ err' = IF r.ok THEN err ELSE r.err
          /\ rv' = IF r.ok /\ AfterIpc(0) = "d_exit" THEN 0 ELSE rv
    /\ idx' = 1
    /\ UNCHANGED <<ns, op, flags, info, dev, mnt, nmnt, devmnt, procmnt, allow, host, calls, budget>>

\* A variant of the test of lines 425-429 without the case of the persistenced
\* socket.
IpcComputeOnly(ipc, fl) == OPT_COMPUTE_LIBS \in fl

\* Lines 423-432, iteration idx of the loop (rv = 0 of line 447 once the loops are done).
IpcAdmitted(ipc, fl) ==
    IF strrcmp0(NV_PERSISTENCED_SOCKET, ipc) THEN OPT_UTILITY_LIBS \in fl
    ELSE OPT_COMPUTE_LIBS \in fl

DriverIpc(f) ==
    /\ pc = "d_ipcs"
    /\ \E r \in {IF IpcAdmitted(info.ipcs[idx], flags)
                  THEN mount_ipc(f, Now, info.ipcs[idx], calls)
                  ELSE Ret(TRUE, Now, Null, "")} :
          /\ ~IpcAdmitted(info.ipcs[idx], flags) => f = Ok
          /\ fs' = r.st.fs
          /\ mounts' = r.st.mounts
          /\ mnt' = IF r.ok /\ r.out /= Null THEN Append(mnt, r.out) ELSE mnt
          /\ pc' = IF r.ok THEN AfterIpc(idx) ELSE DriverFailPc(mnt)
          /\ idx' = IF r.ok /\ AfterIpc(idx) = "d_ipcs" THEN idx + 1 ELSE 1
          /\ err' = IF r.ok THEN err ELSE r.err
          /\ rv' = IF r.ok /\ AfterIpc(idx) = "d_exit" THEN 0 ELSE rv
    /\ UNCHANGED <<ns, op, flags, info, dev, nmnt, devmnt, procmnt, allow, host, calls, budget>>

\* A variant of the test of line 436 that admits every device.
DevUngated(d, fl) == TRUE

\* A variant of the test of line 436 that looks at the major number only.
DevMajorOnly(d, fl) == major(d.id) = NV_DEVICE_MAJOR

\* Lines 434-446, iteration idx of the loop (rv = 0 of line 447 once it is done).
DevAdmitted(d, fl) == OPT_COMPUTE_LIBS \in fl \/ major(d.id) = NV_DEVICE_MAJOR

DriverDev(f) ==
    /\ pc = "d_devs"
    /\ \E d \in {info.devs[idx]} :
       \E m \in {IF DevAdmitted(d, flags) /\ OPT_NO_DEVBIND \notin flags
                  THEN mount_device(f, Now, d.path, calls)
                  ELSE Ret(TRUE, Now, Null, "")} :
       \E c \in {IF m.ok /\ DevAdmitted(d, flags) /\ OPT_NO_CGROUPS \notin flags
                  THEN setup_cgroup(f, allow, d.id)
                  ELSE [ok |-> TRUE, out |-> allow, err |-> ""]} :
       \E ok \in {m.ok /\ c.ok} :
          /\ fs' = m.st.fs
          /\ mounts' = m.st.mounts
          /\ mnt' = IF m.ok /\ m.out /= Null THEN Append(mnt, m.out) ELSE mnt
          /\ allow' = c.out
          /\ pc' = IF ok THEN AfterDev(idx) ELSE DriverFailPc(mnt')
          /\ idx' = IF ok /\ AfterDev(idx) = "d_devs" THEN idx + 1 ELSE 1
          /\ err' = IF ~m.ok THEN m.err ELSE IF ~c.ok THEN c.err ELSE err
          /\ rv' = IF ok /\ AfterDev(idx) = "d_exit" THEN 0 ELSE rv
    /\ UNCHANGED <<ns, op, flags, info, dev, nmnt, devmnt, procmnt, host, calls, budget>>

\* Lines 451-452, iteration idx of the loop: unmount(mnt[i]).  The entries of
\* mnt past the recorded ones are NULL and unmount returns at once for them.
DriverRollback ==
    /\ pc = "d_fail"
    /\ \E s \in {unmount(Now, mnt[idx])} :
          /\ fs' = s.fs
          /\ mounts' = s.mounts
    /\ idx' = idx + 1
    /\ pc' = IF idx < Len(mnt) THEN "d_fail" ELSE "d_exit"
    /\ UNCHANGED <<ns, op, rv, err, flags, info, dev, mnt, nmnt, devmnt, procmnt, allow,
                   host, calls, budget>>

\* Lines 453-459: back to the caller's namespace.  After a rollback a failure
\* of nsenterat is asserted (the process aborts); after success it is returned.
DriverExit(e) ==
    /\ pc = "d_exit"
    /\ IF e = "ok"
       THEN ns' = "caller" /\ pc' = "done" /\ rv' = rv /\ err' = err
       ELSE /\ ns' = ns
            /\ pc' = IF rv < 0 THEN "abort" ELSE "done"
            /\ rv' = -1
            /\ err' = IF rv < 0 THEN err ELSE "nsenterat"
    /\ UNCHANGED <<op, flags, info, dev, mnt, nmnt, idx, devmnt, procmnt, fs, mounts,
                   allow, host, calls, budget>>

\* ------------------------------------------------------- nvc_device_mount
\* Lines 470-476: validation, nsenter.
DeviceEnter(d, e) ==
    /\ pc = "idle"
    /\ calls < budget
    /\ calls' = calls + 1
    /\ op' = "device"
    /\ dev' = d
    /\ info' = NoInfo
    /\ mnt' = <<>>
    /\ nmnt' = 0
    /\ idx' = 1
    /\ devmnt' = Null
    /\ procmnt' = Null
    /\ rv' = -1
    /\ IF e = "validate"
       THEN pc' = "done" /\ err' = e /\ ns' = ns
       ELSE \E n \in {nsenter(ns, e)} :
            /\ ns' = n.ns
            /\ IF ~n.ok
               THEN pc' = "done" /\ err' = "nsenter"
               ELSE pc' = "v_bind" /\ err' = ""
    /\ UNCHANGED <<flags, fs, mounts, allow, host, budget>>

\* A variant of the test of line 481 that accepts every device id.
RdevUnchecked(d) == FALSE

\* Line 481: if (s.st_rdev != dev->node.id)
RdevMismatch(d) == HostRdev(d.node.path) /= d.node.id

\* Lines 478-487: xstat and the st_rdev check return at once; mount_device.
DeviceBind(f) ==
    /\ pc = "v_bind"
    /\ IF OPT_NO_DEVBIND \in flags
       THEN /\ f = Ok
            /\ pc' = "v_procfs"
            /\ UNCHANGED <<err, devmnt, fs, mounts>>
       ELSE IF Hit(f, 0, "xstat")
       THEN /\ pc' = "done"
            /\ err' = "xstat"
            /\ UNCHANGED <<devmnt, fs, mounts>>
       ELSE IF RdevMismatch(dev)
       THEN /\ pc' = "done"
            /\ err' = "invalid device node"
            /\ UNCHANGED <<devmnt, fs, mounts>>
       ELSE \E r \in {mount_device(f, Now, dev.node.path, calls)} :
               /\ fs' = r.st.fs
               /\ mounts' = r.st.mounts
               /\ devmnt' = r.out
               /\ pc' = IF r.ok THEN "v_procfs" ELSE "v_fail"
               /\ err' = IF r.ok THEN err ELSE r.err
    /\ UNCHANGED <<ns, op, rv, flags, info, dev, mnt, nmnt, idx, procmnt, allow, host, calls, budget>>

\* Lines 488-489
DeviceProcfs(f) ==
    /\ pc = "v_procfs"
    /\ \E r \in {mount_procfs_gpu(f, Now, GpuProc(Busid16(dev.busid)), calls)} :
          /\ fs' = r.st.fs
          /\ mounts' = r.st.mounts
          /\ procmnt' = r.out
          /\ pc' = IF r.ok THEN "v_profile" ELSE "v_fail"
          /\ err' = IF r.ok THEN err ELSE r.err
    /\ UNCHANGED <<ns, op, rv, flags, info, dev, mnt, nmnt, idx, devmnt, allow, host, calls, budget>>

\* Lines 490-493
DeviceProfile(f) ==
    /\ pc = "v_profile"
    /\ \E r \in {IF OPT_GRAPHICS_LIBS \in flags
                  THEN update_app_profile(f, Now, dev.node.id, calls)
                  ELSE Ret(TRUE, Now, Null, "")} :
          /\ OPT_GRAPHICS_LIBS \notin flags => f = Ok
          /\ fs' = r.st.fs
          /\ mounts' = r.st.mounts
          /\ pc' = IF r.ok THEN "v_cgroup" ELSE "v_fail"
          /\ err' = IF r.ok THEN err ELSE r.err
    /\ UNCHANGED <<ns, op, rv, flags, info, dev, mnt, nmnt, idx, devmnt, procmnt, allow,
                   host, calls, budget>>

\* Lines 494-498
DeviceCgroup(f) ==
    /\ pc = "v_cgroup"
    /\ \E c \in {IF OPT_NO_CGROUPS \notin flags THEN setup_cgroup(f, allow, dev.node.id)
                  ELSE [ok |-> TRUE, out |-> allow, err |-> ""]} :
          /\ OPT_NO_CGROUPS \in flags => f = Ok
          /\ allow' = c.out
          /\ pc' = IF c.ok THEN "v_exit" ELSE "v_fail"
          /\ rv' = IF c.ok THEN 0 ELSE rv
          /\ err' = IF c.ok THEN err ELSE c.err
    /\ UNCHANGED <<ns, op, flags, info, dev, mnt, nmnt, idx, devmnt, procmnt, fs, mounts,
                   host, calls, budget>>

\* Lines 502-503: unmount(proc_mnt), then unmount(dev_mnt); idx is the one that
\* comes next.
DeviceRollback ==
    /\ pc = "v_fail"
    /\ \E s \in {unmount(Now, IF idx = 1 THEN procmnt ELSE devmnt)} :
          /\ fs' = s.fs
          /\ mounts' = s.mounts
    /\ idx' = idx + 1
    /\ pc' = IF idx < 2 THEN "v_fail" ELSE "v_exit"
    /\ UNCHANGED <<ns, op, rv, err, flags, info, dev, mnt, nmnt, devmnt, procmnt,
                   allow, host, calls, budget>>

\* Lines 504-511: as lines 453-459 of nvc_driver_mount.
DeviceExit(e) ==
    /\ pc = "v_exit"
    /\ IF e = "ok"
       THEN ns' = "caller" /\ pc' = "done" /\ rv' = rv /\ err' = err
       ELSE /\ ns' = ns
            /\ pc' = IF rv < 0 THEN "abort" ELSE "done"
            /\ rv' = -1
            /\ err' = IF rv < 0 THEN err ELSE "nsenterat"
    /\ UNCHANGED <<op, flags, info, dev, mnt, nmnt, idx, devmnt, procmnt, fs, mounts,
                   allow, host, calls, budget>>

\* The caller makes its next call once the previous one has returned.
Return ==
    /\ pc = "done"
    /\ calls < budget
    /\ pc' = "idle"
    /\ UNCHANGED <<ns, op, rv, err, flags, info, dev, mnt, nmnt, idx, devmnt, procmnt,
                   fs, mounts, allow, host, calls, budget>>

Outcomes == {"ok", "validate", "nsenter"}

Next ==
    \/ \E i \in Infos, e \in Outcomes \cup {"array_new"} : DriverEnter(i, e)
    \/ \E f \in ProcfsFails : DriverProcfs(f)
    \/ \E f \in TmpfsFails : DriverAppProfile(f)
    \/ \E f \in FilesFails(info.bins) : DriverBins(f)
    \/ \E f \in FilesFails(info.libs) : DriverLibs(f)
    \/ \E f \in FilesFails(info.libs32) : DriverLibs32(f)
    \/ \E f \in SymlinkFails(mnt) : DriverSymlinks(f)
    \/ \E f \in BindFails : DriverIpc(f)
    \/ \E f \in BindFails \cup CgroupFails : DriverDev(f)
    \/ DriverRollback
    \/ \E e \in {"ok", "nsenterat"} : DriverExit(e)
    \/ \E d \in Devices, e \in Outcomes : DeviceEnter(d, e)
    \/ \E f \in BindFails \cup {F(0, "xstat")} : DeviceBind(f)
    \/ \E f \in GpuFails : DeviceProcfs(f)
    \/ \E f \in ProfileFails : DeviceProfile(f)
    \/ \E f \in CgroupFails : DeviceCgroup(f)
    \/ DeviceRollback
    \/ \E e \in {"ok", "nsenterat"} : DeviceExit(e)
    \/ Return

Spec == Init /\ [][Next]_vars

\* ------------------------------------------------------------------ claims
\* The call has returned after it had entered the container's namespace.
Returned == pc = "done" /\ op /= "none" /\ err \notin {"validate", "nsenter"}

\* The call has returned an error because one of its sub-steps failed.
StepFailed == Returned /\ rv = -1 /\ err /= "nsenterat"

\* The mounts and the files the running call has made and that are still there.
MountsOfCall == {i \in 1..Len(mounts) : mounts[i].by = calls}
FilesOfCall == {k \in DOMAIN fs : fs[k].by = calls}

\* C1: a call that entered the container's mount namespace is, when it returns
\* (ok or error, whichever sub-step failed), back in the caller's namespace.
C1_NamespaceBalance == Returned => ns = "caller"

\* C2: when nvc_driver_mount returns an error because a sub-step of an item
\* failed, no mount made during the call is still mounted.
C2_NoMountLeft == (StepFailed /\ op = "driver") => MountsOfCall = {}

\* C3: when nvc_driver_mount returns an error because a sub-step of an item
\* failed, no file, directory or symbolic link made during the call remains.
C3_NoFileLeft == (StepFailed /\ op = "driver") => FilesOfCall = {}

\* The call has returned OK.
Succeeded == Returned /\ rv = 0

MountedAt == {mounts[i].at : i \in 1..Len(mounts)}
DevPaths(major_) == {info.devs[i].path : i \in {j \in 1..Len(info.devs) : info.devs[j].id.major = major_}}

\* C4 (as claimed): with an empty flag set nvc_driver_mount mounts the procfs
\* view only, and no device node whatever its major number.
C4_OnlyProcfs == (op = "driver" /\ flags = {}) => MountedAt \subseteq {NV_PROC_DRIVER}

\* C4 (amended): with an empty flag set nvc_driver_mount mounts the procfs view
\* and the device nodes of major 195, and nothing else: no library, no binary,
\* no IPC path and no device node of another major.
C4_NoFlags ==
    (op = "driver" /\ flags = {}) =>
        /\ MountedAt \subseteq {NV_PROC_DRIVER} \cup DevPaths(195)
        /\ Succeeded => MountedAt = {NV_PROC_DRIVER} \cup DevPaths(195)

C4_Witness ==
    /\ Succeeded /\ op = "driver" /\ flags = {}
    /\ info.bins /= <<>> /\ info.libs /= <<>> /\ info.ipcs /= <<>>
    /\ DevUvm \notin MountedAt /\ DevCtl \in MountedAt

\* The remount flags of the class of a mount, from its source.
ClassOf(m) ==
    IF m.type = "tmpfs" THEN "tmpfs"
    ELSE IF m.src \in {NV_PERSISTENCED_SOCKET, IpcMps} THEN "ipc"
    ELSE IF m.src \in {DevCtl, DevUvm, DevGpu0, DevGpu1} THEN "device"
    ELSE IF m.src \in {GpuProc("0000:3b:00.0"), GpuProc("0000:af:00.0")} THEN "gpu"
    ELSE "file"

ClassMask(c) ==
    IF c = "file" THEN {"MS_RDONLY", "MS_NODEV", "MS_NOSUID"}
    ELSE IF c = "device" THEN {"MS_RDONLY", "MS_NOSUID", "MS_NOEXEC"}
    ELSE IF c = "gpu" THEN {"MS_RDONLY", "MS_NODEV", "MS_NOSUID", "MS_NOEXEC"}
    ELSE {"MS_NODEV", "MS_NOSUID", "MS_NOEXEC"}

\* The mountpoints the call has recorded.
Recorded == IF op = "driver" THEN {mnt[i] : i \in 1..Len(mnt)} ELSE {devmnt, procmnt} \ {Null}

\* C5: after a successful call every recorded mountpoint is a mount of this
\* call, and every mount of this call was last remounted with MS_BIND|MS_REMOUNT
\* plus exactly the mask of its class.
C5_FlagDiscipline ==
    Succeeded =>
        /\ \A p \in Recorded : TopAt(mounts, p) \in MountsOfCall
        /\ \A i \in MountsOfCall :
              mounts[i].flags = {"MS_BIND", "MS_REMOUNT"} \cup ClassMask(ClassOf(mounts[i]))

C5_Witness ==
    /\ Succeeded
    /\ {ClassOf(mounts[i]) : i \in MountsOfCall} = {"tmpfs", "file", "ipc", "device"}

C5_WitnessDevice ==
    /\ Succeeded /\ op = "device"
    /\ {ClassOf(mounts[i]) : i \in MountsOfCall} = {"gpu", "device"}

\* C6 (as claimed): after a successful call every mount of the call, of every
\* class, carries the read-only flag.
C6_AllReadOnly == Succeeded => \A i \in MountsOfCall : "MS_RDONLY" \in mounts[i].flags

\* C6 (amended): after a successful call the mounts of the classes
\* library/binary, device node and per-GPU procfs directory carry the read-only
\* flag; the IPC mounts and the two tmpfs roots are remounted without it.
C6_ReadOnlyClasses ==
    Succeeded =>
        \A i \in MountsOfCall :
            "MS_RDONLY" \in mounts[i].flags <=> ClassOf(mounts[i]) \in {"file", "device", "gpu"}

C6_Witness ==
    /\ Succeeded
    /\ \E i \in MountsOfCall : ClassOf(mounts[i]) = "file"
    /\ \E i \in MountsOfCall : ClassOf(mounts[i]) = "ipc"

\* C7: every mount is inside the rootfs, and a call whose target exists in the
\* container as a symbolic link that leaves the rootfs returns an error.
EscapingLib ==
    /\ op = "driver" /\ LibCuda \in {info.libs[i] : i \in 1..Len(info.libs)}
    /\ OPT_COMPUTE_LIBS \in flags
    /\ Lookup(fs, mounts, path_append(libs_dir, "libcuda.so.1")).data = Link(<<"out">>)
EscapingDev ==
    /\ op = "device" /\ OPT_NO_DEVBIND \notin flags
    /\ Lookup(fs, mounts, dev.node.path).data = Link(<<"out">>)

C7_PathConfinement ==
    /\ \A i \in 1..Len(mounts) : Inside(mounts[i].at)
    /\ (Returned /\ EscapingLib) =>
           (rv = -1 /\ \A i \in 1..Len(mounts) : mounts[i].src /= LibCuda)
    /\ (Returned /\ EscapingDev) =>
           (rv = -1 /\ \A i \in 1..Len(mounts) : mounts[i].src /= dev.node.path)

C7_Witness == StepFailed /\ EscapingLib /\ err = "file_create" /\ ns = "caller"

\* C8: when every step of the call has completed, the call returns OK and the
\* process is back in the caller's namespace.
C8_SuccessPath ==
    (pc = "done" /\ op /= "none" /\ err \in {"", "nsenterat"}) => (rv = 0 /\ ns = "caller")

\* C9: devices.allow only grows by appended lines; no step of a call, the
\* rollback included, removes or rewrites a line.
C9_CgroupAppendOnly == [][IsPrefix(allow, allow')]_vars

C9_Witness == StepFailed /\ allow /= <<>> /\ MountsOfCall = {} /\ budget = 1

\* C10: after a successful nvc_driver_mount an IPC path of info is mounted iff
\* it is the persistenced socket and UTILITY_LIBS is set, or it is another path
\* and COMPUTE_LIBS is set; a path the policy refuses is never mounted.
IpcPolicy(ipc) ==
    \/ ipc = <<"var", "run", "nvidia-persistenced", "socket">> /\ "UTILITY_LIBS" \in flags
    \/ ipc /= <<"var", "run", "nvidia-persistenced", "socket">> /\ "COMPUTE_LIBS" \in flags

C10_IpcGating ==
    op = "driver" =>
        \A i \in 1..Len(info.ipcs) :
            /\ info.ipcs[i] \in MountedAt => IpcPolicy(info.ipcs[i])
            /\ Succeeded => (info.ipcs[i] \in MountedAt <=> IpcPolicy(info.ipcs[i]))

C10_Witness ==
    /\ Succeeded /\ op = "driver" /\ flags = {OPT_UTILITY_LIBS}
    /\ NV_PERSISTENCED_SOCKET \in MountedAt /\ IpcMps \notin MountedAt
    /\ IpcMps \in {info.ipcs[i] : i \in 1..Len(info.ipcs)}

\* C11: a device of info.devs is included iff COMPUTE_LIBS is set or its major
\* is 195; an included device is bind-mounted iff NO_DEVBIND is clear and gets a
\* devices.allow line iff NO_CGROUPS is clear; an excluded device gets neither;
\* with NO_CGROUPS no call writes devices.allow.
DevPolicy(d) == "COMPUTE_LIBS" \in flags \/ d.id.major = 195
AllowLines == {allow[i] : i \in 1..Len(allow)}

C11_DeviceGating ==
    /\ "NO_CGROUPS" \in flags => allow = <<>>
    /\ op = "driver" =>
          \A i \in 1..Len(info.devs) :
              /\ info.devs[i].path \in MountedAt =>
                     (DevPolicy(info.devs[i]) /\ "NO_DEVBIND" \notin flags)
              /\ info.devs[i].id \in AllowLines =>
                     (DevPolicy(info.devs[i]) /\ "NO_CGROUPS" \notin flags)
              /\ Succeeded =>
                     /\ info.devs[i].path \in MountedAt <=>
                            (DevPolicy(info.devs[i]) /\ "NO_DEVBIND" \notin flags)
                     /\ info.devs[i].id \in AllowLines <=>
                            (DevPolicy(info.devs[i]) /\ "NO_CGROUPS" \notin flags)

C11_Witness ==
    /\ Succeeded /\ op = "driver" /\ flags = {OPT_NO_DEVBIND}
    /\ Len(info.devs) = 2
    /\ DevCtl \notin MountedAt
    /\ AllowLines = {DevId(195, 255)}

\* C12: a file of bins is mounted iff the binary-flag predicate accepts its
\* basename, a file of libs iff the library-flag predicate accepts it, a file
\* of libs32 iff COMPAT32 is set and the library-flag predicate accepts it.
FileMounted(dir, src) ==
    \E i \in 1..Len(mounts) : mounts[i].at = path_append(dir, basename(src)) /\ mounts[i].src = src

FileGate(dir, paths, admit(_)) ==
    \A i \in 1..Len(paths) :
        /\ FileMounted(dir, paths[i]) => admit(basename(paths[i]))
        /\ Succeeded => (FileMounted(dir, paths[i]) <=> admit(basename(paths[i])))

BinGate(file) == match_binary_flags(file, flags)
LibGate(file) == match_library_flags(file, flags)
Lib32Gate(file) == "COMPAT32" \in flags /\ match_library_flags(file, flags)

C12_FileGating ==
    op = "driver" =>
        /\ FileGate(bins_dir, info.bins, BinGate)
        /\ FileGate(libs_dir, info.libs, LibGate)
        /\ FileGate(libs32_dir, info.libs32, Lib32Gate)

\* 10-container.conf as the container sees it, and the mask it holds.
ConfAt(f, mt) == Lookup(f, mt, ConfPath)
IsProfile(n) == n.kind = "file" /\ n.data.t = "profile"

\* Errors of update_app_profile that come from its environment (a path that
\* does not resolve, a read, an allocation or a write that fails).
ProfileEnvErrors == {"path_resolve", "file_read_text", "xasprintf", "file_create"}

\* C13: for every mask M stored in 10-container.conf, the all-ones mask
\* included, and every minor m, update_app_profile rewrites the file with
\* M | (1 << m); when the file is absent it emits 1 << m; applying it again with
\* the same m leaves the file as it is.
Merged(old, new, m) ==
    /\ IsProfile(new)
    /\ new.data.m = (IF old.kind = "none" THEN {} ELSE old.data.m) \cup {m}

Reapplied(f, mt, id) ==
    ConfAt(update_app_profile(Ok, St(f, mt), id, calls).st.fs, mt).data = ConfAt(f, mt).data

C13_MergeLaw ==
    [][(/\ pc = "v_profile" /\ "GRAPHICS_LIBS" \in flags
        /\ (ConfAt(fs, mounts).kind = "none" \/ IsProfile(ConfAt(fs, mounts))))
       => \/ /\ pc' = "v_cgroup"
             /\ Merged(ConfAt(fs, mounts), ConfAt(fs', mounts'), dev.node.id.minor)
             /\ Reapplied(fs', mounts', dev.node.id)
          \/ pc' = "v_fail" /\ err' \in ProfileEnvErrors]_vars

\* The bits set in the mask of 10-container.conf (none when there is no file).
ConfBits(n) == IF IsProfile(n) THEN n.data.m ELSE {}

\* C14: bit n of the mask is set iff some nvc_device_mount for minor n returned
\* OK; a call that fails leaves the mask as it was.  Stated for the first call
\* on a container without 10-container.conf: once it has returned, the mask
\* holds its minor if it returned OK and nothing otherwise.
C14_MaskTracksAdmission ==
    (/\ budget = 1 /\ op = "device" /\ pc = "done"
     /\ "GRAPHICS_LIBS" \in flags /\ err /= "nsenterat")
    => ConfBits(ConfAt(fs, mounts)) = (IF rv = 0 THEN {dev.node.id.minor} ELSE {})

\* C15: when nvc_device_mount is called without NO_DEVBIND and the st_rdev of
\* the host's device node differs from dev.node.id, the call returns an error
\* and has made no mount, no file (10-container.conf included) and no
\* devices.allow write.
C15_IdMismatch ==
    [][(/\ pc = "v_bind" /\ "NO_DEVBIND" \notin flags
        /\ HostRdev(dev.node.path) /= dev.node.id)
       => /\ pc' = "done" /\ rv' = -1
          /\ MountsOfCall' = {} /\ FilesOfCall' = {}
          /\ fs' = fs /\ mounts' = mounts /\ allow' = allow]_vars

C15_Witness ==
    /\ pc = "done" /\ op = "device" /\ err = "invalid device node" /\ rv = -1
    /\ calls = 2 /\ mounts /= <<>> /\ MountsOfCall = {}

\* C16: every mount, unmount, file creation or removal and devices.allow write
\* of a call, those of the rollback included, is made by a step taken inside
\* the container's mount namespace, after the call entered it and before it
\* left it; when the namespace cannot be entered none is made.
Working == {"d_procfs", "d_app", "d_bins", "d_libs", "d_libs32", "d_symlinks", "d_ipcs",
            "d_devs", "d_fail", "v_bind", "v_procfs", "v_profile", "v_cgroup", "v_fail"}

C16_Confinement ==
    [][/\ (fs' /= fs \/ mounts' /= mounts \/ allow' /= allow) =>
              (pc \in Working /\ ns = "container" /\ ns' = "container")
       /\ pc' \in Working => ns' = "container"]_vars

C16_Witness == pc = "d_fail" /\ idx > 1 /\ ns = "container" /\ allow /= <<>>

\* C17: after the library mounts a sibling symbolic link libcuda.so (or
\* libGLX_indirect.so.0) -> <basename> exists for each mounted library whose
\* basename has the prefix libcuda.so (or libGLX_nvidia.so), and the call makes
\* no symbolic link for anything else: other libraries, binaries, the procfs
\* and application profile mountpoints.
LinkName(file) ==
    IF strpcmp0(file, "libcuda.so") THEN "libcuda.so"
    ELSE IF strpcmp0(file, "libGLX_nvidia.so") THEN "libGLX_indirect.so.0"
    ELSE ""

\* The links the policy asks for, for the libraries paths mounted into dir.
LinksFor(dir, paths) ==
    {[at |-> path_append(dir, LinkName(basename(paths[i]))), to |-> basename(paths[i])] :
        i \in {j \in 1..Len(paths) : LinkName(basename(paths[j])) /= ""}}

LinksOfCall ==
    {[at |-> k[2], to |-> fs[k].data.s[2]] : k \in {j \in FilesOfCall : fs[j].kind = "symlink"}}

C17_SymlinkPolicy ==
    op = "driver" =>
        /\ LinksOfCall \subseteq LinksFor(libs_dir, info.libs) \cup LinksFor(libs32_dir, info.libs32)
        /\ Succeeded =>
              \A l \in LinksFor(libs_dir, info.libs) \cup LinksFor(libs32_dir, info.libs32) :
                  (\E i \in 1..Len(mounts) : mounts[i].at = path_append(dirname(l.at), l.to))
                      <=> l \in LinksOfCall

\* C18: the container's copy of params is the host's params with the first
\* "ModifyDeviceFiles: 1" turned into "ModifyDeviceFiles: 0" (a params without
\* it is copied as it is); version and registry are copied as they are; a host
\* file that does not exist has no copy; the host's files are never written.
FirstSetting(t) ==
    {i \in 1..Len(t) : t[i] = "ModifyDeviceFiles: 1"
                        /\ \A j \in 1..(i - 1) : t[j] /= "ModifyDeviceFiles: 1"}

Rewritten(t) ==
    [i \in 1..Len(t) |-> IF i \in FirstSetting(t) THEN "ModifyDeviceFiles: 0" ELSE t[i]]

CopyOf(f, mt, name) == Lookup(f, mt, path_append(<<"proc", "driver", "nvidia">>, name))

CopyIs(n, d) == IF d.t = "none" THEN n.kind = "none" ELSE n.kind = "file" /\ n.data = d

C18_ParamsRewrite ==
    [][/\ host' = host
       /\ (pc = "d_procfs" /\ pc' = "d_app") =>
              /\ CopyIs(CopyOf(fs', mounts', "params"),
                        [host.params EXCEPT !.s = Rewritten(host.params.s)])
              /\ CopyIs(CopyOf(fs', mounts', "version"), host.version)
              /\ CopyIs(CopyOf(fs', mounts', "registry"), host.registry)]_vars

C18_Witness ==
    /\ pc = "d_app"
    /\ Cardinality({i \in 1..Len(host.params.s) : host.params.s[i] = "ModifyDeviceFiles: 1"}) = 2
    /\ CopyOf(fs, mounts, "params").data.s
           = <<"ResmanDebugLevel: 1", "ModifyDeviceFiles: 0", "ModifyDeviceFiles: 1">>
    /\ CopyOf(fs, mounts, "registry").data.s = <<"ModifyDeviceFiles: 1">>

\* C19: on failure both calls undo their recorded mounts in creation order
\* (the mount recorded first is unmounted first), each by umount2 followed by
\* the removal of its mount target, and a step that cannot be undone does not
\* stop the undoing of the others.
\* The mounts of the call at its recorded mountpoints, oldest first in the table.
RecordedMounts(mt) == {i \in 1..Len(mt) : mt[i].by = calls /\ mt[i].at \in Recorded}

Undoing == pc \in {"d_fail", "v_fail"}

\* The step detaches the oldest of the recorded mounts that are still there.
OldestFirst ==
    \A i \in RecordedMounts(mounts) :
        (\A j \in RecordedMounts(mounts) : i <= j) =>
            (\A k \in 1..Len(mounts') : mounts'[k] /= mounts[i])

\* Nothing of the call is left at a recorded mountpoint: no mount, no target.
Undone(f, mt) ==
    /\ RecordedMounts(mt) = {}
    /\ \A p \in Recorded : Lookup(f, mt, p).by /= calls

C19_RollbackOrder ==
    [][/\ (Undoing /\ mounts' /= mounts) => OldestFirst
       /\ (Undoing /\ pc' \notin {"d_fail", "v_fail"}) => Undone(fs', mounts')]_vars

\* C20: when 10-container.conf exists and holds no "0x", or no hex number
\* after its "0x", update_app_profile fails and leaves the file as it is, and
\* nvc_device_mount returns an error with its mounts undone.
\* The text files of the model hold no hex number: every one of them is malformed.
Malformed(n) == n.kind = "file" /\ n.data.t = "text"

C20_Malformed ==
    [][/\ (pc = "v_profile" /\ "GRAPHICS_LIBS" \in flags /\ Malformed(ConfAt(fs, mounts))) =>
              (pc' = "v_fail" /\ ConfAt(fs', mounts') = ConfAt(fs, mounts))
       /\ (op = "device" /\ pc' = "done" /\ err = "invalid application profile") =>
              (rv' = -1 /\ MountsOfCall' = {})]_vars

\* C21: a call never unmounts a mount and never removes a file or directory
\* that was there before it started: what an earlier call (or the image) left
\* at a target path survives the later call's failure and rollback.
\* The mount m of an earlier call is still in the table mt (its flags aside).
StillMounted(mt, m) ==
    \E j \in 1..Len(mt) :
        /\ mt[j].at = m.at /\ mt[j].src = m.src /\ mt[j].type = m.type
        /\ mt[j].by = m.by /\ mt[j].id = m.id

C21_RollbackFrame ==
    [][calls' = calls =>
          /\ \A i \in 1..Len(mounts) : mounts[i].by < calls => StillMounted(mounts', mounts[i])
          /\ \A k \in DOMAIN fs : fs[k].by < calls => k \in DOMAIN fs']_vars

====
